---- MODULE Spec2Model ----
(***************************************************************************)
(* Model of the Next.js role-based route middleware (src/middleware.ts).   *)
(*                                                                         *)
(* middleware(request) is a pure decision over the request's pathname and  *)
(* its two credential cookies.  The state machine around it is the browser *)
(* that submits a request, receives the response and, when the response is *)
(* a redirect, re-submits to the redirect target with the cookie jar the   *)
(* response leaves behind.                                                 *)
(*                                                                         *)
(* Paths and cookie values are strings; startsWith is computed on the      *)
(* characters of the string, as String.prototype.startsWith does.          *)
(* A cookie jar is a function from the names of the cookies that are set   *)
(* to their values; an optional value (JavaScript's `undefined | string`)  *)
(* is the empty tuple or a one-element tuple.                              *)
(***************************************************************************)
EXTENDS FiniteSets, Integers, Sequences, TLC

VARIABLES pathname, cookies, response, pc, visited

vars == <<pathname, cookies, response, pc, visited>>

(***************************************************************************)
(* Bounds of the explored input space.                                     *)
(***************************************************************************)
MaxPathLen == 20

BasePaths ==
    { "/", "/about", "/public/logo.png", "/_next/static", "/api/users",
      "/favicon.ico", "/login", "/loginx", "/register", "/admin/login",
      "/supplier/login", "/courier/login", "/reset-password",
      "/forgot-password", "/verify-signup", "/callback",
      "/admin/users", "/admin/dashboard", "/dashboard/stats",
      "/supplier/products", "/supplier/dashboard", "/courier/orders",
      "/courier/dashboard", "/account/profile", "/accountable",
      "/orders/1", "/cart", "/notifications" }

Min(a, b) == IF a <= b THEN a ELSE b

\* every request path is a non-empty prefix of a base path; all start with "/"
Paths ==
    { SubSeq(b, 1, n) : <<b, n>> \in
        { bn \in BasePaths \X (1..MaxPathLen) : bn[2] <= Min(Len(bn[1]), MaxPathLen) } }

TokenValues == { "", "t", "u" }

RoleValues ==
    { "", "ADMIN", "VENDOR", "DELIVERY", "CLIENT", "FOO",
      "constructor", "__proto__", "toString", "__defineGetter__" }

CookieNames == { "access_token", "user_role" }

CookieJars ==
    { jar \in UNION { [S -> TokenValues \cup RoleValues] : S \in SUBSET CookieNames } :
        /\ "access_token" \in DOMAIN jar => jar["access_token"] \in TokenValues
        /\ "user_role" \in DOMAIN jar => jar["user_role"] \in RoleValues }

(***************************************************************************)
(* JavaScript primitives used by the middleware.                           *)
(***************************************************************************)
undefined == <<>>

\* String.prototype.startsWith
startsWith(s, prefix) ==
    /\ Len(prefix) <= Len(s)
    /\ SubSeq(s, 1, Len(prefix)) = prefix

\* request.cookies.get(name)?.value
cookieValue(jar, name) ==
    IF name \in DOMAIN jar THEN <<jar[name]>> ELSE undefined

\* the twelve members an object literal inherits from Object.prototype (the
\* Annex B accessor helpers included), each as the string String(value) that
\* a string context makes of it; all are truthy
ObjectPrototype ==
    "constructor" :> "function Object() { [native code] }"
    @@ "__proto__" :> "[object Object]"
    @@ "toString" :> "function toString() { [native code] }"
    @@ "toLocaleString" :> "function toLocaleString() { [native code] }"
    @@ "valueOf" :> "function valueOf() { [native code] }"
    @@ "hasOwnProperty" :> "function hasOwnProperty() { [native code] }"
    @@ "isPrototypeOf" :> "function isPrototypeOf() { [native code] }"
    @@ "propertyIsEnumerable" :> "function propertyIsEnumerable() { [native code] }"
    @@ "__defineGetter__" :> "function __defineGetter__() { [native code] }"
    @@ "__defineSetter__" :> "function __defineSetter__() { [native code] }"
    @@ "__lookupGetter__" :> "function __lookupGetter__() { [native code] }"
    @@ "__lookupSetter__" :> "function __lookupSetter__() { [native code] }"

\* percent-encoding of one character by the URL pathname setter
encodeChar(c) ==
    IF c = " " THEN "%20"
    ELSE IF c = "{" THEN "%7B"
    ELSE IF c = "}" THEN "%7D"
    ELSE IF c = "?" THEN "%3F"
    ELSE IF c = "#" THEN "%23"
    ELSE c

\* the characters of s from position i on, each percent-encoded
RECURSIVE encodeFrom(_, _)
encodeFrom(s, i) ==
    IF i > Len(s) THEN ""
    ELSE encodeChar(SubSeq(s, i, i)) \o encodeFrom(s, i + 1)

encodePath(s) == encodeFrom(s, 1)

\* url.pathname = v: the value is percent-encoded and given a leading "/"
urlPathname(v) ==
    LET e == encodePath(v)
    IN  IF Len(e) >= 1 /\ SubSeq(e, 1, 1) = "/" THEN e ELSE "/" \o e

\* variant of truthy: only undefined is falsy, the empty string is truthy
truthy_presence(v) == v # undefined

\* truthiness of an optional string: undefined and "" are falsy
truthy(v) == v # undefined /\ v[1] # ""

(***************************************************************************)
(* Route configuration (routeConfig).                                      *)
(***************************************************************************)
UserRole == { "ADMIN", "VENDOR", "DELIVERY", "CLIENT" }

PUBLIC_ROUTES ==
    { "/", "/public", "/login", "/register", "/admin/login", "/supplier/login",
      "/courier/login", "/reset-password", "/forgot-password", "/verify-signup",
      "/callback" }

EXCLUDED_PATHS == { "/_next", "/api", "/public", "/favicon.ico" }

ROLE_ACCESS_MAP ==
    [ ADMIN    |-> { "/admin", "/dashboard" },
      VENDOR   |-> { "/supplier" },
      DELIVERY |-> { "/courier" },
      CLIENT   |-> { "/account", "/orders", "/cart", "/notifications" } ]

ROLE_DASHBOARD_MAP ==
    [ ADMIN    |-> "/admin/dashboard",
      VENDOR   |-> "/supplier/dashboard",
      DELIVERY |-> "/courier/dashboard",
      CLIENT   |-> "/account" ]

(***************************************************************************)
(* Utility functions of the middleware.                                    *)
(***************************************************************************)
\* variant of isExcludedPath: exact match instead of prefix match
isExcludedPath_exact(path) ==
    \E excludedPath \in EXCLUDED_PATHS : path = excludedPath

isExcludedPath(path) ==
    \E excludedPath \in EXCLUDED_PATHS : startsWith(path, excludedPath)

\* the callback returns true for "/" on "/", and otherwise the prefix test,
\* for every entry, the root entry included
isPublicRoute(path) ==
    \E publicRoute \in PUBLIC_ROUTES :
        IF publicRoute = "/" /\ path = "/" THEN TRUE
        ELSE startsWith(path, publicRoute)

\* variant of isLoginRoute: arguments of startsWith swapped
isLoginRoute_swapped(path) ==
    \E loginRoute \in { "/login", "/admin/login", "/supplier/login", "/courier/login" } :
        startsWith(loginRoute, path)

isLoginRoute(path) ==
    \E loginRoute \in { "/login", "/admin/login", "/supplier/login", "/courier/login" } :
        startsWith(path, loginRoute)

determineLoginPath(path) ==
    IF startsWith(path, "/admin") THEN "/admin/login"
    ELSE IF startsWith(path, "/supplier") THEN "/supplier/login"
    ELSE IF startsWith(path, "/courier") THEN "/courier/login"
    ELSE "/login"

\* ROLE_ACCESS_MAP[userRole] || []: the role's own entry, or the truthy
\* inherited member of that name, which is not an array, or else []
userAllowedRoutes(userRole) ==
    IF userRole \in DOMAIN ROLE_ACCESS_MAP THEN
        [ isArray |-> TRUE, routes |-> ROLE_ACCESS_MAP[userRole] ]
    ELSE IF userRole \in DOMAIN ObjectPrototype THEN
        [ isArray |-> FALSE, routes |-> {} ]
    ELSE
        [ isArray |-> TRUE, routes |-> {} ]

\* threw: userAllowedRoutes.some is not a function (TypeError)
hasRoleAccess(userRole, currentPath) ==
    LET allowed == userAllowedRoutes(userRole)
    IN  [ threw |-> ~allowed.isArray,
          value |-> /\ allowed.isArray
                    /\ \E allowedRoute \in allowed.routes :
                          startsWith(currentPath, allowedRoute) ]

\* Object.values(ROLE_ACCESS_MAP).flat()
allProtectedRoutes == UNION { ROLE_ACCESS_MAP[r] : r \in DOMAIN ROLE_ACCESS_MAP }

isProtectedRoute(path) ==
    \E protectedRoute \in allProtectedRoutes : startsWith(path, protectedRoute)

\* variant of dashboardPath: fallback to the login page
dashboardPath_login(role) ==
    IF role \in DOMAIN ROLE_DASHBOARD_MAP THEN ROLE_DASHBOARD_MAP[role]
    ELSE IF role \in DOMAIN ObjectPrototype THEN ObjectPrototype[role]
    ELSE "/login"

\* ROLE_DASHBOARD_MAP[role] || "/": the role's own entry, or the truthy
\* inherited member of that name, or else "/"
dashboardPath(role) ==
    IF role \in DOMAIN ROLE_DASHBOARD_MAP THEN ROLE_DASHBOARD_MAP[role]
    ELSE IF role \in DOMAIN ObjectPrototype THEN ObjectPrototype[role]
    ELSE "/"

(***************************************************************************)
(* Responses.  step is the numbered step of the logic flow that returned.  *)
(***************************************************************************)
\* NextResponse.next()
NextResponse_next(step) ==
    [ kind |-> "next", location |-> "", deleted |-> {}, step |-> step ]

\* NextResponse.redirect(url) with url.pathname = location
NextResponse_redirect(location, step) ==
    [ kind |-> "redirect", location |-> location, deleted |-> {}, step |-> step ]

\* the middleware throws: no response is returned
Thrown(step) ==
    [ kind |-> "throw", location |-> "", deleted |-> {}, step |-> step ]

\* response.cookies.delete("access_token"); response.cookies.delete("user_role")
clearAuthCookies(resp) ==
    [ resp EXCEPT !.deleted = @ \cup { "access_token", "user_role" } ]

(***************************************************************************)
(* middleware(request): the logic flow, steps 1 to 5.                      *)
(***************************************************************************)
middleware(path, jar) ==
    LET token == cookieValue(jar, "access_token")
        role  == cookieValue(jar, "user_role")
    IN  IF isExcludedPath(path) THEN
            NextResponse_next(1)
        ELSE IF isPublicRoute(path) THEN
            IF truthy(token) /\ truthy(role) /\ isLoginRoute(path) THEN
                NextResponse_redirect(urlPathname(dashboardPath(role[1])), 2)
            ELSE
                NextResponse_next(2)
        ELSE IF ~truthy(token) THEN
            NextResponse_redirect(urlPathname(determineLoginPath(path)), 3)
        ELSE IF truthy(role) THEN
            IF isProtectedRoute(path) THEN
                IF hasRoleAccess(role[1], path).threw THEN
                    Thrown(4)
                ELSE IF ~hasRoleAccess(role[1], path).value THEN
                    NextResponse_redirect(urlPathname(dashboardPath(role[1])), 4)
                ELSE
                    NextResponse_next(5)
            ELSE
                NextResponse_next(5)
        ELSE
            clearAuthCookies(NextResponse_redirect("/login", 4))

(***************************************************************************)
(* The browser around the middleware.                                      *)
(***************************************************************************)
NoResponse == [ kind |-> "none", location |-> "", deleted |-> {}, step |-> 0 ]

\* the cookie jar after the browser has applied the response's deletions
applyDeletions(jar, resp) ==
    [ name \in (DOMAIN jar) \ resp.deleted |-> jar[name] ]

Init ==
    /\ pathname \in Paths
    /\ cookies \in CookieJars
    /\ response = NoResponse
    /\ pc = "request"
    /\ visited = {}

\* the host runs the middleware on the pending request
Handle ==
    /\ pc = "request"
    /\ response' = middleware(pathname, cookies)
    /\ visited' = visited \cup { <<pathname, cookies>> }
    /\ pc' = "responded"
    /\ UNCHANGED <<pathname, cookies>>

\* the browser follows a redirect response
FollowRedirect ==
    /\ pc = "responded"
    /\ response.kind = "redirect"
    /\ pathname' = response.location
    /\ cookies' = applyDeletions(cookies, response)
    /\ pc' = "request"
    /\ UNCHANGED <<response, visited>>

Next == Handle \/ FollowRedirect

Spec == Init /\ [][Next]_vars

\* every submitted request is handled and every redirect is followed
FairSpec == Spec /\ WF_vars(Handle) /\ WF_vars(FollowRedirect)

TypeOK ==
    /\ Len(pathname) >= 1
    /\ startsWith(pathname, "/")
    /\ cookies \in CookieJars
    /\ pc \in { "request", "responded" }
    /\ response.kind \in { "none", "next", "redirect", "throw" }
    /\ response.deleted \subseteq CookieNames

(***************************************************************************)
(* Vocabulary of the properties.                                           *)
(***************************************************************************)
\* the middleware has answered the request <<pathname, cookies>>
Handled == pc = "responded"

\* the decision of a response: its kind, its target and the cookies it deletes
Decision(resp) ==
    [ kind |-> resp.kind, location |-> resp.location, deleted |-> resp.deleted ]

\* public as the specification defines it: "/" exactly, the other entries by prefix
PublicBySpec(path) ==
    \/ path = "/"
    \/ \E publicRoute \in PUBLIC_ROUTES \ { "/" } : startsWith(path, publicRoute)

ExcludedPrefixes == { "/_next", "/api", "/public", "/favicon.ico" }

LoginPrefixes == { "/login", "/admin/login", "/supplier/login", "/courier/login" }

tokenOf(jar) == cookieValue(jar, "access_token")

roleOf(jar) == cookieValue(jar, "user_role")

\* the request carries a non-empty token and one of the four roles
HasValidCredentials ==
    /\ truthy(tokenOf(cookies))
    /\ roleOf(cookies) # undefined
    /\ roleOf(cookies)[1] \in UserRole

\* the path lies in the area steps 3 to 5 are written for
GatedPath == ~isExcludedPath(pathname) /\ ~PublicBySpec(pathname)

ExpectedLoginPath(path) ==
    IF startsWith(path, "/admin") THEN "/admin/login"
    ELSE IF startsWith(path, "/supplier") THEN "/supplier/login"
    ELSE IF startsWith(path, "/courier") THEN "/courier/login"
    ELSE "/login"

ExpectedDashboard(role) ==
    CASE role = "ADMIN"    -> "/admin/dashboard"
      [] role = "VENDOR"   -> "/supplier/dashboard"
      [] role = "DELIVERY" -> "/courier/dashboard"
      [] role = "CLIENT"   -> "/account"
      [] OTHER             -> "/"

(***************************************************************************)
(* C1: a request without an access_token on a path that is neither         *)
(* excluded nor public is redirected, never passed through, to the login   *)
(* page chosen from the path prefix alone.                                 *)
(***************************************************************************)
C1_NoTokenRedirectsToLogin ==
    (Handled /\ "access_token" \notin DOMAIN cookies /\ GatedPath)
        => /\ response.kind = "redirect"
           /\ response.location = ExpectedLoginPath(pathname)

(***************************************************************************)
(* C2: a request with a token and a valid role on a non-excluded,          *)
(* non-public path that starts with some role's prefix but with none of    *)
(* its own role's prefixes is redirected to its role's dashboard.          *)
(***************************************************************************)
C2_WrongRoleRedirectsToDashboard ==
    (/\ Handled /\ HasValidCredentials /\ GatedPath
     /\ \E r \in UserRole : \E p \in ROLE_ACCESS_MAP[r] : startsWith(pathname, p)
     /\ ~\E p \in ROLE_ACCESS_MAP[roleOf(cookies)[1]] : startsWith(pathname, p))
        => /\ response.kind = "redirect"
           /\ response.location = ExpectedDashboard(roleOf(cookies)[1])

(***************************************************************************)
(* C3: isPublicRoute(path) holds exactly when path is "/" or starts with   *)
(* one of the non-root entries of PUBLIC_ROUTES.                           *)
(***************************************************************************)
C3_PublicRouteClassification ==
    isPublicRoute(pathname) <=> PublicBySpec(pathname)

(***************************************************************************)
(* C4: a path that starts with an excluded prefix is passed through by     *)
(* the exclusion check (step 1) for every combination of token and role:   *)
(* no redirect, no cookie deletion, and the public-route rule never        *)
(* decides it.                                                             *)
(***************************************************************************)
C4_ExcludedAlwaysAllowed ==
    (Handled /\ \E p \in ExcludedPrefixes : startsWith(pathname, p))
        => /\ response.kind = "next"
           /\ response.deleted = {}
           /\ response.step = 1

C4_Witness ==
    /\ Handled
    /\ pathname = "/public/logo.png"
    /\ cookies = [ access_token |-> "t", user_role |-> "ADMIN" ]
    /\ response.kind = "next"

(***************************************************************************)
(* C5: a token without a role on a non-excluded, non-public path gives a   *)
(* redirect to /login that deletes both credential cookies, and the same   *)
(* path requested again with the credentials cleared gets the plain        *)
(* no-token login redirect of step 3.                                      *)
(***************************************************************************)
C5_TokenWithoutRoleClearsCredentials ==
    (/\ Handled /\ GatedPath
     /\ "access_token" \in DOMAIN cookies /\ cookies["access_token"] # ""
     /\ "user_role" \notin DOMAIN cookies)
        => /\ Decision(response) =
                [ kind |-> "redirect", location |-> "/login",
                  deleted |-> { "access_token", "user_role" } ]
           /\ LET again == middleware(pathname, applyDeletions(cookies, response))
              IN  /\ Decision(again) =
                        [ kind |-> "redirect",
                          location |-> ExpectedLoginPath(pathname), deleted |-> {} ]
                  /\ again.step = 3

(***************************************************************************)
(* C6: a user_role cookie that holds none of the four roles gets the       *)
(* decision of the same request without the user_role cookie; with a       *)
(* token on a non-excluded, non-public path that is the redirect to       *)
(* /login with both credential cookies deleted.                            *)
(***************************************************************************)
C6_UnknownRoleAsAbsent ==
    (/\ Handled
     /\ "user_role" \in DOMAIN cookies /\ cookies["user_role"] \notin UserRole)
        => /\ Decision(response) =
                Decision(middleware(pathname,
                    [ name \in (DOMAIN cookies) \ { "user_role" } |-> cookies[name] ]))
           /\ (truthy(tokenOf(cookies)) /\ GatedPath)
                => Decision(response) =
                    [ kind |-> "redirect", location |-> "/login",
                      deleted |-> { "access_token", "user_role" } ]

(***************************************************************************)
(* C7: on a non-excluded public path, a request with both a token and a    *)
(* role on a login page is redirected to the role's dashboard; every       *)
(* other request on a public path is passed through.                       *)
(***************************************************************************)
C7_PublicRouteRule ==
    (Handled /\ ~isExcludedPath(pathname)
     /\ (PublicBySpec(pathname) \/ isPublicRoute(pathname)))
        => IF /\ truthy(tokenOf(cookies)) /\ truthy(roleOf(cookies))
              /\ \E p \in LoginPrefixes : startsWith(pathname, p)
           THEN Decision(response) =
                    [ kind |-> "redirect",
                      location |-> ExpectedDashboard(roleOf(cookies)[1]),
                      deleted |-> {} ]
           ELSE Decision(response) =
                    [ kind |-> "next", location |-> "", deleted |-> {} ]

(***************************************************************************)
(* C8: no redirect loop: following every redirect, with the cookies the    *)
(* response deletes removed, no request <<pathname, cookies>> is submitted *)
(* twice and the chain ends in a pass-through.                             *)
(***************************************************************************)
C8_NoRedirectLoop ==
    /\ [](pc = "request" => <<pathname, cookies>> \notin visited)
    /\ <>(pc = "responded" /\ response.kind = "next")

C8_Witness ==
    /\ Handled
    /\ response.kind = "next"
    /\ Cardinality(visited) = 2

(***************************************************************************)
(* C9 as stated: the decision is the same for every value of a present     *)
(* access_token cookie, the empty string included, and it is never the     *)
(* no-token login redirect.                                                *)
(***************************************************************************)
C9_TokenValueIrrelevant ==
    (Handled /\ "access_token" \in DOMAIN cookies)
        => /\ \A v \in TokenValues :
                Decision(middleware(pathname, [ cookies EXCEPT !["access_token"] = v ]))
                    = Decision(response)
           /\ response.step # 3

(***************************************************************************)
(* C9 amended: the decision is the same for every non-empty value of the   *)
(* access_token cookie and is never the no-token login redirect; an        *)
(* access_token cookie set to the empty string gets the decision of the    *)
(* request without the cookie.                                             *)
(***************************************************************************)
C9_NonEmptyTokenValueIrrelevant ==
    (Handled /\ "access_token" \in DOMAIN cookies)
        => IF cookies["access_token"] # ""
           THEN /\ \A v \in TokenValues \ { "" } :
                     Decision(middleware(pathname,
                         [ cookies EXCEPT !["access_token"] = v ])) = Decision(response)
                /\ response.step # 3
           ELSE Decision(response) =
                    Decision(middleware(pathname,
                        [ name \in (DOMAIN cookies) \ { "access_token" } |-> cookies[name] ]))

C9_Witness ==
    /\ Handled
    /\ pathname = "/login"
    /\ cookies = [ access_token |-> "u", user_role |-> "ADMIN" ]
    /\ response.kind = "redirect"

(***************************************************************************)
(* C10: a request with a token and a valid role on a non-excluded,         *)
(* non-public path is passed through when the path starts with one of the  *)
(* role's own prefixes or with no prefix of any role; the match is the     *)
(* plain string prefix.                                                    *)
(***************************************************************************)
C10_OwnOrUngatedPathAllowed ==
    (/\ Handled /\ HasValidCredentials /\ GatedPath
     /\ \/ \E p \in ROLE_ACCESS_MAP[roleOf(cookies)[1]] : startsWith(pathname, p)
        \/ ~\E r \in UserRole : \E p \in ROLE_ACCESS_MAP[r] : startsWith(pathname, p))
        => Decision(response) = [ kind |-> "next", location |-> "", deleted |-> {} ]

C10_Witness ==
    /\ Handled
    /\ pathname = "/accountable"
    /\ cookies = [ access_token |-> "t", user_role |-> "CLIENT" ]
    /\ response.kind = "next"

(***************************************************************************)
(* The second implementation, src/middleware.js: the same logic flow with  *)
(* its own tables and with the checks written inline.                      *)
(***************************************************************************)
js_PUBLIC_ROUTES ==
    { "/", "/public", "/login", "/register", "/admin/login", "/supplier/login",
      "/courier/login", "/reset-password", "/forgot-password", "/verify-signup",
      "/callback" }

js_EXCLUDED_PATHS == { "/_next", "/api", "/public", "/favicon.ico" }

js_ROLE_ACCESS_MAP ==
    [ ADMIN    |-> { "/admin", "/dashboard" },
      VENDOR   |-> { "/supplier" },
      DELIVERY |-> { "/courier" },
      CLIENT   |-> { "/account", "/orders", "/cart", "/notifications" } ]

js_ROLE_DASHBOARD_MAP ==
    [ ADMIN    |-> "/admin/dashboard",
      VENDOR   |-> "/supplier/dashboard",
      DELIVERY |-> "/courier/dashboard",
      CLIENT   |-> "/account" ]

\* const isExcludedPath = EXCLUDED_PATHS.some(path => pathname.startsWith(path))
js_isExcludedPath(path) ==
    \E excluded \in js_EXCLUDED_PATHS : startsWith(path, excluded)

\* const isPublicRoute = PUBLIC_ROUTES.some(route => ...)
js_isPublicRoute(path) ==
    \E route \in js_PUBLIC_ROUTES :
        IF route = "/" /\ path = "/" THEN TRUE
        ELSE startsWith(path, route)

\* variant of js_isLoginRoute: the courier login page is missing from the list
js_isLoginRoute_short(path) ==
    \E route \in { "/login", "/admin/login", "/supplier/login" } :
        startsWith(path, route)

\* const isLoginRoute = [...].some(route => pathname.startsWith(route))
js_isLoginRoute(path) ==
    \E route \in { "/login", "/admin/login", "/supplier/login", "/courier/login" } :
        startsWith(path, route)

\* let loginPath = "/login"; if ... else if ... else if ...
js_loginPath(path) ==
    IF startsWith(path, "/admin") THEN "/admin/login"
    ELSE IF startsWith(path, "/supplier") THEN "/supplier/login"
    ELSE IF startsWith(path, "/courier") THEN "/courier/login"
    ELSE "/login"

\* const currentProtectedRoutes = Object.values(ROLE_ACCESS_MAP).flat()
js_currentProtectedRoutes ==
    UNION { js_ROLE_ACCESS_MAP[r] : r \in DOMAIN js_ROLE_ACCESS_MAP }

\* const isProtectedRoute = currentProtectedRoutes.some(...)
js_isProtectedRoute(path) ==
    \E route \in js_currentProtectedRoutes : startsWith(path, route)

\* const userAllowedRoutes = ROLE_ACCESS_MAP[role] || []
js_userAllowedRoutes(role) ==
    IF role \in DOMAIN js_ROLE_ACCESS_MAP THEN
        [ isArray |-> TRUE, routes |-> js_ROLE_ACCESS_MAP[role] ]
    ELSE IF role \in DOMAIN ObjectPrototype THEN
        [ isArray |-> FALSE, routes |-> {} ]
    ELSE
        [ isArray |-> TRUE, routes |-> {} ]

\* const hasAccess = userAllowedRoutes.some(...); threw: some is not a function
js_hasAccess(role, path) ==
    LET allowed == js_userAllowedRoutes(role)
    IN  [ threw |-> ~allowed.isArray,
          value |-> /\ allowed.isArray
                    /\ \E allowedRoute \in allowed.routes :
                          startsWith(path, allowedRoute) ]

\* ROLE_DASHBOARD_MAP[role] || "/"
js_dashboardPath(role) ==
    IF role \in DOMAIN js_ROLE_DASHBOARD_MAP THEN js_ROLE_DASHBOARD_MAP[role]
    ELSE IF role \in DOMAIN ObjectPrototype THEN ObjectPrototype[role]
    ELSE "/"

js_middleware(path, jar) ==
    LET token == cookieValue(jar, "access_token")
        role  == cookieValue(jar, "user_role")
    IN  IF js_isExcludedPath(path) THEN
            NextResponse_next(1)
        ELSE IF js_isPublicRoute(path) THEN
            IF truthy(token) /\ truthy(role) THEN
                IF js_isLoginRoute(path) THEN
                    NextResponse_redirect(urlPathname(js_dashboardPath(role[1])), 2)
                ELSE
                    NextResponse_next(2)
            ELSE
                NextResponse_next(2)
        ELSE IF ~truthy(token) THEN
            NextResponse_redirect(urlPathname(js_loginPath(path)), 3)
        ELSE IF truthy(role) THEN
            IF js_isProtectedRoute(path) THEN
                IF js_hasAccess(role[1], path).threw THEN
                    Thrown(4)
                ELSE IF ~js_hasAccess(role[1], path).value THEN
                    NextResponse_redirect(urlPathname(js_dashboardPath(role[1])), 4)
                ELSE
                    NextResponse_next(5)
            ELSE
                NextResponse_next(5)
        ELSE
            [ NextResponse_redirect("/login", 4)
                EXCEPT !.deleted = { "access_token", "user_role" } ]

(***************************************************************************)
(* C11: the two implementations agree: for every path, token value and     *)
(* role value, middleware of src/middleware.ts and middleware of           *)
(* src/middleware.js return the same kind of response, the same redirect   *)
(* target and the same set of deleted cookies, from the same step.         *)
(***************************************************************************)
C11_ImplementationsAgree ==
    Handled
        => /\ Decision(js_middleware(pathname, cookies)) = Decision(response)
           /\ js_middleware(pathname, cookies).step = response.step

C11_Witness ==
    /\ Handled
    /\ pathname = "/courier/login"
    /\ cookies = [ access_token |-> "t", user_role |-> "DELIVERY" ]
    /\ response.kind = "redirect"
    /\ js_middleware(pathname, cookies).location = "/courier/dashboard"
====
